---- MODULE Spec2Model ----
(***************************************************************************)
(* A model of src/app.py: the Flask endpoint process_credit_card, which    *)
(* parses a cc|mm|yy|cvv path parameter, forwards it to a fixed upstream   *)
(* API (direct, then through each listed proxy, then through one random    *)
(* proxy) and returns a sanitized JSON envelope.                           *)
(*                                                                         *)
(* Text is a sequence of one-character strings.  A Python value is a       *)
(* record [t, v]: t is its type ("None", "str", "int", "dict", "list") and *)
(* v its content.  A raised exception is such a record too, t its class.   *)
(***************************************************************************)
EXTENDS Integers, Sequences, FiniteSets, TLC

VARIABLES
    PROXY_CONFIGS,   \* the module-level proxy list, fixed at process start
    pc,              \* where the handler of the current request stands
    cc_param,        \* the raw path parameter of the current request
    parsed,          \* what parse_cc_parameter returned: <<cc, mm, yyyy, cvv>>
    attempts,        \* the outbound requests.get calls of this request, in order
    proxy_index,     \* position of the for loop over PROXY_CONFIGS
    response,        \* what make_request_with_fallback returned
    final_response,  \* outcome of the last-resort try block
    result,          \* the reply of the endpoint: [http, json]
    text,            \* argument of the last sanitize_response call
    sanitized,       \* what that call returned
    calls            \* how many times sanitize_response has been applied to it

vars == <<PROXY_CONFIGS, pc, cc_param, parsed, attempts, proxy_index, response,
          final_response, result, text, sanitized, calls>>

requestVars == <<PROXY_CONFIGS, pc, cc_param, parsed, attempts, proxy_index,
                 response, final_response, result>>

sanitizeVars == <<text, sanitized, calls>>

----------------------------------------------------------------------------
(* Bounds of the model *)

\* Longest raw path parameter a request carries.
MaxParamLen == 8

\* Longest proxy list the process is started with.
MaxProxies == 2

\* A sanitizer input is a concatenation of at most this many pieces.
MaxPieces == 4

----------------------------------------------------------------------------
(* Python values *)

PyNone == [t |-> "None", v |-> <<>>]

PyStr(s) == [t |-> "str", v |-> s]

PyInt(digits) == [t |-> "int", v |-> digits]

\* bool(x) for None, str and int.
Truthy(x) ==
    CASE x.t = "None" -> FALSE
      [] x.t = "str"  -> x.v # <<>>
      [] x.t = "int"  -> x.v # <<"0">>
      [] OTHER        -> TRUE

\* A raised exception, with str(e) as its content.
Raise(type, message) == [t |-> type, v |-> message]

ExceptionTypes ==
    {"TypeError", "AttributeError", "ValueError", "IndexError", "Timeout"}

IsRaise(x) == x.t \in ExceptionTypes

\* str(n) for a natural number n.
RECURSIVE Digits(_)
Digits(n) ==
    LET d == <<"0", "1", "2", "3", "4", "5", "6", "7", "8", "9">>
    IN  IF n < 10 THEN <<d[n + 1]>> ELSE Digits(n \div 10) \o <<d[(n % 10) + 1]>>

----------------------------------------------------------------------------
(* Character classes of the regular expressions (ASCII) *)

Lower == {"a", "b", "c", "d", "e", "f", "g", "h", "i", "j", "k", "l", "m",
          "n", "o", "p", "q", "r", "s", "t", "u", "v", "w", "x", "y", "z"}

Upper == {"A", "B", "C", "D", "E", "F", "G", "H", "I", "J", "K", "L", "M",
          "N", "O", "P", "Q", "R", "S", "T", "U", "V", "W", "X", "Y", "Z"}

Digit == {"0", "1", "2", "3", "4", "5", "6", "7", "8", "9"}

\* \w
WordChars == Lower \cup Upper \cup Digit \cup {"_"}

\* The range $-_ of the class [$-_@.&+]: code points 0x24 to 0x5F.
DollarToUnderscore ==
    {"$", "%", "&", "'", "(", ")", "*", "+", ",", "-", ".", "/", ":", ";",
     "<", "=", ">", "?", "@", "[", "\\", "]", "^", "_"} \cup Digit \cup Upper

\* [a-zA-Z] | [0-9] | [$-_@.&+] | [!*\(\),] : one character of a URL.  The
\* last alternative, %XX, only matches text the third one already matches.
UrlChars ==
    Lower \cup Upper \cup Digit \cup DollarToUnderscore \cup {"@", ".", "&", "+"}
        \cup {"!", "*", "\\", "(", ")", ","}

\* What str.strip() removes.
Whitespace == {" ", "\t", "\n", "\r", "\f"}

----------------------------------------------------------------------------
(* sanitize_response *)

\* s[i], or "" past either end.
At(s, i) == IF i \in 1..Len(s) THEN s[i] ELSE ""

\* Whether s continues with the text p at position i.
StartsWith(s, i, p) == \A k \in 1..Len(p) : At(s, i + k - 1) = p[k]

\* Length of the longest run of characters of class at position i: a greedy +.
RECURSIVE RunLen(_, _, _)
RunLen(class, s, i) ==
    IF At(s, i) \in class THEN 1 + RunLen(class, s, i + 1) ELSE 0

\* Length of the match of @\w+ at position i, 0 if none.
MentionLen(s, i) ==
    IF At(s, i) = "@" /\ RunLen(WordChars, s, i + 1) > 0
    THEN 1 + RunLen(WordChars, s, i + 1)
    ELSE 0

\* Length of the match of http[s]?://(...)+ at position i, 0 if none.
UrlLen(s, i) ==
    LET p == IF At(s, i + 4) = "s" THEN i + 5 ELSE i + 4
        n == RunLen(UrlChars, s, p + 3)
    IN  IF At(s, i) = "h" /\ StartsWith(s, i, <<"h", "t", "t", "p">>)
           /\ StartsWith(s, p, <<":", "/", "/">>) /\ n > 0
        THEN (p + 3 + n) - i
        ELSE 0

\* Length of the match of www\.\w+\.\w+ at position i, 0 if none.
WwwLen(s, i) ==
    LET n1 == RunLen(WordChars, s, i + 4)
        n2 == RunLen(WordChars, s, i + 5 + n1)
    IN  IF At(s, i) = "w" /\ StartsWith(s, i, <<"w", "w", "w", ".">>) /\ n1 > 0
           /\ At(s, i + 4 + n1) = "." /\ n2 > 0
        THEN 5 + n1 + n2
        ELSE 0

MatchLen(pattern, s, i) ==
    CASE pattern = "mention" -> MentionLen(s, i)
      [] pattern = "url"     -> UrlLen(s, i)
      [] pattern = "www"     -> WwwLen(s, i)

\* re.sub(pattern, '', s) from position i on: one left-to-right pass that
\* drops every non-overlapping match.
RECURSIVE SubAll(_, _, _)
SubAll(pattern, s, i) ==
    IF i > Len(s) THEN <<>>
    ELSE LET n == MatchLen(pattern, s, i)
         IN  IF n > 0 THEN SubAll(pattern, s, i + n)
             ELSE <<s[i]>> \o SubAll(pattern, s, i + 1)

\* str.lstrip()
RECURSIVE LStrip(_)
LStrip(s) ==
    IF s # <<>> /\ s[1] \in Whitespace THEN LStrip(Tail(s)) ELSE s

\* str.rstrip()
RECURSIVE RStrip(_)
RStrip(s) ==
    IF s # <<>> /\ s[Len(s)] \in Whitespace
    THEN RStrip(SubSeq(s, 1, Len(s) - 1))
    ELSE s

\* str.strip()
Strip(s) == RStrip(LStrip(s))

sanitize_response(x) ==
    IF ~Truthy(x) THEN PyStr(<<>>)
    ELSE IF x.t # "str" THEN Raise("TypeError", <<"e", "x", "p", "e", "c", "t", "e",
                                                  "d", " ", "s", "t", "r", "i", "n",
                                                  "g", " ", "o", "r", " ", "b", "y",
                                                  "t", "e", "s", "-", "l", "i", "k",
                                                  "e", " ", "o", "b", "j", "e", "c",
                                                  "t">>)
    ELSE PyStr(Strip(SubAll("www", SubAll("url", SubAll("mention", x.v, 1), 1), 1)))

----------------------------------------------------------------------------
(* parse_cc_parameter *)

\* s.split('|')
RECURSIVE Split(_)
Split(s) ==
    LET bars == {i \in 1..Len(s) : s[i] = "|"}
    IN  IF bars = {} THEN <<s>>
        ELSE LET i == CHOOSE b \in bars : \A c \in bars : b <= c
             IN  <<SubSeq(s, 1, i - 1)>> \o Split(SubSeq(s, i + 1, Len(s)))

\* parse_cc_parameter with len(parts) >= 4 for len(parts) == 4: further
\* fields are dropped instead of rejected.
parse_cc_parameter_AtLeast4(p) ==
    LET parts == Split(p)
    IN  IF Len(parts) >= 4
        THEN LET yyyy == IF Len(parts[3]) = 2 THEN <<"2", "0">> \o parts[3]
                         ELSE parts[3]
             IN  <<PyStr(parts[1]), PyStr(parts[2]), PyStr(yyyy), PyStr(parts[4])>>
        ELSE <<PyNone, PyNone, PyNone, PyNone>>

\* parse_cc_parameter with len(yyyy_or_yy) <= 2 for len(yyyy_or_yy) == 2.
parse_cc_parameter_ShortYear(p) ==
    LET parts == Split(p)
    IN  IF Len(parts) = 4
        THEN LET yyyy == IF Len(parts[3]) <= 2 THEN <<"2", "0">> \o parts[3]
                         ELSE parts[3]
             IN  <<PyStr(parts[1]), PyStr(parts[2]), PyStr(yyyy), PyStr(parts[4])>>
        ELSE <<PyNone, PyNone, PyNone, PyNone>>

parse_cc_parameter(p) ==
    LET parts == Split(p)
    IN  IF Len(parts) = 4
        THEN LET yyyy == IF Len(parts[3]) = 2 THEN <<"2", "0">> \o parts[3]
                         ELSE parts[3]
             IN  <<PyStr(parts[1]), PyStr(parts[2]), PyStr(yyyy), PyStr(parts[4])>>
        ELSE <<PyNone, PyNone, PyNone, PyNone>>

----------------------------------------------------------------------------
(* Upstream responses *)

Absent == [t |-> "absent", v |-> <<>>]

\* A JSON object with the keys code, status and message, each present or not.
PyDict(code, status, message) ==
    [t |-> "dict", v |-> [code |-> code, status |-> status, message |-> message]]

PyList == [t |-> "list", v |-> <<>>]

\* dict.get(key, default)
Get(d, key, default) == IF d.v[key].t = "absent" THEN default ELSE d.v[key]

\* The JSON text of a value.
DumpsValue(x) ==
    CASE x.t = "None" -> <<"n", "u", "l", "l">>
      [] x.t = "int"  -> x.v
      [] x.t = "str"  -> <<"\"">> \o x.v \o <<"\"">>
      [] x.t = "list" -> <<"[", "]">>

DumpsItem(d, key, name) ==
    IF d.v[key].t = "absent" THEN <<>>
    ELSE <<<<"\"">> \o name \o <<"\"", ":">> \o DumpsValue(d.v[key])>>

RECURSIVE JoinItems(_)
JoinItems(items) ==
    IF items = <<>> THEN <<>>
    ELSE IF Len(items) = 1 THEN items[1]
    ELSE items[1] \o <<",">> \o JoinItems(Tail(items))

Dumps(x) ==
    IF x.t = "dict"
    THEN <<"{">> \o JoinItems(DumpsItem(x, "code", <<"c", "o", "d", "e">>)
                              \o DumpsItem(x, "status", <<"s", "t", "a", "t", "u", "s">>)
                              \o DumpsItem(x, "message", <<"m", "e", "s", "s", "a", "g", "e">>))
              \o <<"}">>
    ELSE DumpsValue(x)

\* The pieces upstream text is made of: each starts, ends or is a match of one
\* of the sanitizer's patterns.
Pieces == {<<"@">>, <<"a">>, <<" ">>, <<"/">>, <<".">>, <<"h", "t", "t", "p", ":", "/">>, <<"w", "w", "w", ".", "a", ".", "b">>}

\* Every concatenation of at most n pieces.
RECURSIVE Texts(_)
Texts(n) ==
    IF n = 0 THEN {<<>>}
    ELSE LET T == Texts(n - 1) IN T \cup {t \o p : t \in T, p \in Pieces}

\* Upstream bodies that are not JSON: response.json() raises ValueError.
BodyTexts ==
    {<<>>, <<" ", "o", "k", " ">>, <<"o", "k", " ", "@", "a", " ", "h", "t",
                                     "t", "p", ":", "/", "/", "a", ".", "a">>, <<"s", "e", "e", " ", "w", "w", "w",
                                                                                 ".", "a", ".", "b", " ", "h", "e",
                                                                                 "r", "e">>,
     <<"h", "t", "t", "p", ":", "/", "w", "w", "w", ".", "a", ".", "b", "/",
       "a">>}

CodeValues == {Absent, PyStr(<<"@", "a">>)}

StatusValues == {Absent, PyStr(<<"l", "i", "v", "e">>)}

MessageValues ==
    {Absent, PyNone, PyInt(<<"5">>), PyStr(<<"o", "k", " ", "@", "a", " ", "h",
                                             "t", "t", "p", ":", "/", "/", "a",
                                             ".", "a">>),
     PyStr(<<"h", "t", "t", "p", ":", "/", "w", "w", "w", ".", "a", ".", "b",
             "/", "a">>)}

JsonBodies ==
    {PyDict(c, s, m) : c \in CodeValues, s \in StatusValues, m \in MessageValues}
        \cup {PyList}

\* A body: response.text, and what response.json() returns or raises.
Bodies ==
    {[text |-> Dumps(j), json |-> j] : j \in JsonBodies}
        \cup {[text |-> b, json |-> Raise("ValueError", <<>>)] : b \in BodyTexts}

NoBody == [text |-> <<>>, json |-> Raise("ValueError", <<>>)]

Response(status, body) == [t |-> "Response", status |-> status, body |-> body]

\* What one requests.get call ends with: a response or a raised exception.
Outcomes ==
    {Response(200, b) : b \in Bodies}
        \cup {Response(204, NoBody), Response(403, NoBody), Raise("Timeout", <<>>)}

Pending == [t |-> "pending"]

\* The success test comparing the status with the text "200": never true.
Is200Never(o) == FALSE

\* response.status_code == 200 (lines 66 and 76)
Is200(o) == o.t = "Response" /\ o.status = 200

\* bool(response): None is false, a Response is true when its status is < 400.
ResponseTruthy(r) == r.t = "Response" /\ r.status < 400

----------------------------------------------------------------------------
(* process_credit_card *)

\* The validation testing the card number alone.
AllPresentCardOnly(fields) == Truthy(fields[1])

\* all([cc, mm, yyyy, cvv])
AllPresent(fields) == \A i \in 1..4 : Truthy(fields[i])

\* f"{cc}|{mm}|{yyyy}|{cvv}"
CcString(fields) ==
    fields[1].v \o <<"|">> \o fields[2].v \o <<"|">> \o fields[3].v
        \o <<"|">> \o fields[4].v

TARGET_API_BASE == <<"h", "t", "t", "p", "s", ":", "/", "/", "p", "a", "y",
                     "p", "a", "l", ".", "c", "x", "c", "h", "k", ".", "s",
                     "i", "t", "e", "/", "g", "a", "t", "e", "=", "p", "p",
                     "1">>

\* f"{TARGET_API_BASE}/cc={cc}|{mm}|{yyyy}|{cvv}"
BaseTargetUrl(fields) == TARGET_API_BASE \o <<"/", "c", "c", "=">> \o CcString(fields)

\* f"{target_url}?proxy={proxy_config}"
ProxyUrl(target_url, proxy_config) == target_url \o <<"?", "p", "r", "o", "x", "y", "=">> \o proxy_config

Reply(http, json) == [http |-> http, json |-> json]

NoReply == [http |-> 0, json |-> <<>>]

InvalidParameters ==
    Reply(400, [code    |-> PyStr(<<"I", "N", "V", "A", "L", "I", "D", "_",
                                    "P", "A", "R", "A", "M", "E", "T", "E",
                                    "R", "S">>),
                message |-> PyStr(<<"I", "n", "v", "a", "l", "i", "d", " ",
                                    "c", "r", "e", "d", "i", "t", " ", "c",
                                    "a", "r", "d", " ", "p", "a", "r", "a",
                                    "m", "e", "t", "e", "r", " ", "f", "o",
                                    "r", "m", "a", "t", ".", " ", "U", "s",
                                    "e", ":", " ", "c", "c", "|", "m", "m",
                                    "|", "y", "y", "y", "y", "|", "c", "v",
                                    "v", " ", "o", "r", " ", "c", "c", "|",
                                    "m", "m", "|", "y", "y", "|", "c", "v",
                                    "v">>),
                status  |-> PyStr(<<"d", "e", "c", "l", "i", "n", "e", "d">>)])

\* The handler's outer except clause.
InternalError(e) ==
    Reply(500, [code    |-> PyStr(<<"I", "N", "T", "E", "R", "N", "A", "L",
                                    "_", "E", "R", "R", "O", "R">>),
                message |-> PyStr(<<"I", "n", "t", "e", "r", "n", "a", "l",
                                    " ", "s", "e", "r", "v", "e", "r", " ",
                                    "e", "r", "r", "o", "r", ":", " ">> \o e.v),
                status  |-> PyStr(<<"e", "r", "r", "o", "r">>)])

\* The success envelope with the error envelopes' key, message, for response.
EnvelopeMessageKey(fields, message, status, code) ==
    Reply(200, [cc      |-> PyStr(CcString(fields)),
                message |-> message,
                status  |-> status,
                code    |-> code])

Envelope(fields, message, status, code) ==
    Reply(200, [cc       |-> PyStr(CcString(fields)),
                response |-> message,
                status   |-> status,
                code     |-> code])

\* Lines 105-134: the reply built from a 200 response of the direct or a
\* listed-proxy attempt.
FormatResponse(fields, r) ==
    LET sanitized_content == sanitize_response(PyStr(r.body.text))
        api_data == r.body.json
    IN  IF api_data.t = "ValueError"
        THEN Envelope(fields, sanitized_content, PyStr(<<"p", "r", "o", "c", "e", "s", "s",
                                                         "e", "d">>),
                      PyStr(<<"T", "E", "X", "T", "_", "R", "E", "S", "P",
                              "O", "N", "S", "E">>))
        ELSE IF api_data.t # "dict"
        THEN InternalError(Raise("AttributeError",
                                 <<"'", "l", "i", "s", "t", "'", " ", "o",
                                   "b", "j", "e", "c", "t", " ", "h", "a",
                                   "s", " ", "n", "o", " ", "a", "t", "t",
                                   "r", "i", "b", "u", "t", "e", " ", "'",
                                   "g", "e", "t", "'">>))
        ELSE LET code    == Get(api_data, "code", PyStr(<<"U", "N", "K", "N", "O", "W", "N",
                                                          "_", "E", "R", "R", "O", "R">>))
                 status  == Get(api_data, "status", PyStr(<<"d", "e", "c", "l", "i", "n", "e",
                                                            "d">>))
                 message == Get(api_data, "message", PyStr(<<>>))
                 clean   == IF Truthy(message) THEN sanitize_response(message)
                            ELSE message
             IN  IF IsRaise(clean) THEN InternalError(clean)
                 ELSE Envelope(fields, clean, status, code)

\* The last resort answering a non-200 of upstream with HTTP 502.
FormatFinalBadGateway(fields, o) ==
    IF IsRaise(o)
    THEN Reply(200, [code    |-> PyStr(<<"N", "E", "T", "W", "O", "R", "K",
                                         "_", "B", "L", "O", "C", "K", "E",
                                         "D">>),
                     message |-> PyStr(<<"A", "l", "l", " ", "c", "o", "n",
                                         "n", "e", "c", "t", "i", "o", "n",
                                         " ", "a", "t", "t", "e", "m", "p",
                                         "t", "s", " ", "w", "e", "r", "e",
                                         " ", "b", "l", "o", "c", "k", "e",
                                         "d", ".">>),
                     status  |-> PyStr(<<"d", "e", "c", "l", "i", "n", "e",
                                         "d">>)])
    ELSE IF o.status = 200
    THEN Envelope(fields, sanitize_response(PyStr(o.body.text)),
                  PyStr(<<"a", "p", "p", "r", "o", "v", "e", "d">>), PyStr(<<"P", "R", "O", "X", "Y", "_", "S",
                                                                             "U", "C", "C", "E", "S", "S">>))
    ELSE Reply(502, [code    |-> PyStr(<<"A", "P", "I", "_", "E", "R", "R",
                                         "O", "R">>),
                     message |-> PyStr(<<"T", "a", "r", "g", "e", "t", " ",
                                         "A", "P", "I", " ", "r", "e", "t",
                                         "u", "r", "n", "e", "d", " ", "s",
                                         "t", "a", "t", "u", "s", " ">>
                                       \o Digits(o.status)),
                     status  |-> PyStr(<<"e", "r", "r", "o", "r">>)])

\* Lines 142-163: the reply built from the outcome of the last-resort try.
FormatFinal(fields, o) ==
    IF IsRaise(o)
    THEN Reply(200, [code    |-> PyStr(<<"N", "E", "T", "W", "O", "R", "K",
                                         "_", "B", "L", "O", "C", "K", "E",
                                         "D">>),
                     message |-> PyStr(<<"A", "l", "l", " ", "c", "o", "n",
                                         "n", "e", "c", "t", "i", "o", "n",
                                         " ", "a", "t", "t", "e", "m", "p",
                                         "t", "s", " ", "w", "e", "r", "e",
                                         " ", "b", "l", "o", "c", "k", "e",
                                         "d", ".", " ", "T", "h", "e", " ",
                                         "t", "a", "r", "g", "e", "t", " ",
                                         "A", "P", "I", " ", "m", "a", "y",
                                         " ", "h", "a", "v", "e", " ", "s",
                                         "t", "r", "i", "c", "t", " ", "s",
                                         "e", "c", "u", "r", "i", "t", "y",
                                         " ", "m", "e", "a", "s", "u", "r",
                                         "e", "s", ".">>),
                     status  |-> PyStr(<<"d", "e", "c", "l", "i", "n", "e",
                                         "d">>)])
    ELSE IF o.status = 200
    THEN Envelope(fields, sanitize_response(PyStr(o.body.text)),
                  PyStr(<<"a", "p", "p", "r", "o", "v", "e", "d">>), PyStr(<<"P", "R", "O", "X", "Y", "_", "S",
                                                                             "U", "C", "C", "E", "S", "S">>))
    ELSE Reply(200, [code    |-> PyStr(<<"A", "P", "I", "_", "B", "L", "O",
                                         "C", "K", "E", "D">>),
                     message |-> PyStr(<<"T", "a", "r", "g", "e", "t", " ",
                                         "A", "P", "I", " ", "b", "l", "o",
                                         "c", "k", "e", "d", " ", "a", "l",
                                         "l", " ", "r", "e", "q", "u", "e",
                                         "s", "t", "s", ".", " ", "S", "t",
                                         "a", "t", "u", "s", ":", " ">>
                                       \o (IF ResponseTruthy(o) THEN Digits(o.status)
                                           ELSE <<"N", "o", " ", "r", "e", "s", "p",
                                                  "o", "n", "s", "e">>)),
                     status  |-> PyStr(<<"d", "e", "c", "l", "i", "n", "e",
                                         "d">>)])

----------------------------------------------------------------------------
(* The state machine *)

\* Proxy identifiers: the configured one, then further entries of the same shape.
ProxyName(i) ==
    IF i = 1 THEN <<"T", "I", "T", "S", ".", "O", "O", "P", "S", ".", "W",
                    "T", "F", ":", "6", "9", "6", "9", ":", "a", "s", "y",
                    "n", "c", "i", "o", ":", "r", "e", "q", "u", "e", "s",
                    "t", "s">>
    ELSE <<"p", "r", "o", "x", "y">> \o Digits(i) \o <<".", "e", "x", "a", "m", "p", "l",
                                                       "e", ":", "8", "0", "8", "0", ":",
                                                       "a", "s", "y", "n", "c", "i", "o",
                                                       ":", "r", "e", "q", "u", "e", "s",
                                                       "t", "s">>

\* Every text of 1 to n characters over the alphabet.
RECURSIVE Strings(_, _)
Strings(alphabet, n) ==
    IF n = 0 THEN {<<>>}
    ELSE LET S == Strings(alphabet, n - 1)
         IN  S \cup {s \o <<c>> : s \in S, c \in alphabet}

\* The raw parameters a request may carry (the route's path converter never
\* passes an empty one).
Params == Strings({"4", "|"}, MaxParamLen) \ {<<>>}

NoFields == <<PyNone, PyNone, PyNone, PyNone>>

\* The handler's locals before a request arrives.
Idle ==
    /\ pc = "idle"
    /\ cc_param = <<>>
    /\ parsed = NoFields
    /\ attempts = <<>>
    /\ proxy_index = 0
    /\ response = PyNone
    /\ final_response = PyNone
    /\ result = NoReply

NoSanitizeCall ==
    /\ text = PyNone
    /\ sanitized = PyNone
    /\ calls = 0

Init ==
    /\ PROXY_CONFIGS \in {[i \in 1..n |-> ProxyName(i)] : n \in 0..MaxProxies}
    /\ Idle
    /\ NoSanitizeCall

\* Lines 88-100: a request arrives; its parameter is parsed and validated.
Request ==
    /\ pc = "idle"
    /\ \E p \in Params :
        /\ cc_param' = p
        /\ parsed' = parse_cc_parameter(p)
        /\ IF AllPresent(parse_cc_parameter(p))
           THEN pc' = "direct" /\ result' = NoReply
           ELSE pc' = "done" /\ result' = InvalidParameters
    /\ UNCHANGED <<PROXY_CONFIGS, attempts, proxy_index, response,
                   final_response, sanitizeVars>>

\* requests.get(url, ...) is called: the request is in flight.
Issue(url, headers) ==
    attempts' = Append(attempts, [url |-> url, headers |-> headers,
                                  outcome |-> Pending])

\* The call in flight ends with outcome o.
Complete(o) == attempts' = [attempts EXCEPT ![Len(attempts)].outcome = o]

\* Lines 103-105 and 135: make_request_with_fallback returns r, a response
\* or None, and the handler formats it or turns to its last resort.
Return(r) ==
    /\ response' = r
    /\ IF ResponseTruthy(r) /\ r.status = 200
       THEN pc' = "done" /\ result' = FormatResponse(parsed, r)
       ELSE pc' = "final" /\ result' = result

\* Lines 72 and 81: the loop goes to entry i of PROXY_CONFIGS or, past the
\* list, ends and None is returned.
Loop(i) ==
    /\ proxy_index' = i
    /\ IF i <= Len(PROXY_CONFIGS)
       THEN pc' = "proxy" /\ response' = response /\ result' = result
       ELSE Return(PyNone)

\* Line 65: the direct request, without proxy.
SendDirect ==
    /\ pc = "direct"
    /\ Issue(BaseTargetUrl(parsed), TRUE)
    /\ pc' = "direct_wait"
    /\ UNCHANGED <<PROXY_CONFIGS, cc_param, parsed, proxy_index, response,
                   final_response, result, sanitizeVars>>

\* Lines 65-69: the direct request ends.
RecvDirect ==
    /\ pc = "direct_wait"
    /\ \E o \in Outcomes :
        /\ Complete(o)
        /\ IF Is200(o) THEN Return(o) /\ proxy_index' = proxy_index
           ELSE Loop(1)
    /\ UNCHANGED <<PROXY_CONFIGS, cc_param, parsed, final_response, sanitizeVars>>

\* Lines 72-75: the request through the next listed proxy.
SendProxy ==
    /\ pc = "proxy"
    /\ Issue(ProxyUrl(BaseTargetUrl(parsed), PROXY_CONFIGS[proxy_index]), TRUE)
    /\ pc' = "proxy_wait"
    /\ UNCHANGED <<PROXY_CONFIGS, cc_param, parsed, proxy_index, response,
                   final_response, result, sanitizeVars>>

\* Lines 75-81: that request ends.
RecvProxy ==
    /\ pc = "proxy_wait"
    /\ \E o \in Outcomes :
        /\ Complete(o)
        /\ IF Is200(o) THEN Return(o) /\ proxy_index' = proxy_index
           ELSE Loop(proxy_index + 1)
    /\ UNCHANGED <<PROXY_CONFIGS, cc_param, parsed, final_response, sanitizeVars>>

\* Lines 137-140: the last resort picks a proxy at random and sends the
\* request, without headers; random.choice raises IndexError on an empty list.
SendFinal ==
    /\ pc = "final"
    /\ IF PROXY_CONFIGS = <<>>
       THEN /\ final_response' = Raise("IndexError", <<>>)
            /\ result' = FormatFinal(parsed, Raise("IndexError", <<>>))
            /\ pc' = "done"
            /\ attempts' = attempts
       ELSE /\ \E i \in 1..Len(PROXY_CONFIGS) :
                   Issue(ProxyUrl(BaseTargetUrl(parsed), PROXY_CONFIGS[i]), FALSE)
            /\ pc' = "final_wait"
            /\ UNCHANGED <<final_response, result>>
    /\ UNCHANGED <<PROXY_CONFIGS, cc_param, parsed, proxy_index, response,
                   sanitizeVars>>

\* The last resort trying again, with another random proxy, until a request
\* gets a reply of status 200 or raises.
RecvFinalRetry ==
    /\ pc = "final_wait"
    /\ \E o \in Outcomes :
        /\ Complete(o)
        /\ IF o.t = "Response" /\ o.status # 200
           THEN pc' = "final" /\ UNCHANGED <<final_response, result>>
           ELSE /\ final_response' = o
                /\ result' = FormatFinal(parsed, o)
                /\ pc' = "done"
    /\ UNCHANGED <<PROXY_CONFIGS, cc_param, parsed, proxy_index, response,
                   sanitizeVars>>

\* Lines 140-163: the last-resort request ends and decides the reply.
RecvFinal ==
    /\ pc = "final_wait"
    /\ \E o \in Outcomes :
        /\ Complete(o)
        /\ final_response' = o
        /\ result' = FormatFinal(parsed, o)
    /\ pc' = "done"
    /\ UNCHANGED <<PROXY_CONFIGS, cc_param, parsed, proxy_index, response,
                   sanitizeVars>>

\* The reply is sent and the handler's locals are gone.
Finish ==
    /\ pc = "done"
    /\ pc' = "idle"
    /\ cc_param' = <<>>
    /\ parsed' = NoFields
    /\ attempts' = <<>>
    /\ proxy_index' = 0
    /\ response' = PyNone
    /\ final_response' = PyNone
    /\ result' = NoReply
    /\ UNCHANGED <<PROXY_CONFIGS, sanitizeVars>>

Next ==
    \/ Request
    \/ SendDirect
    \/ RecvDirect
    \/ SendProxy
    \/ RecvProxy
    \/ SendFinal
    \/ RecvFinal
    \/ Finish

Spec == Init /\ [][Next]_vars

----------------------------------------------------------------------------
(* sanitize_response on its own *)

\* The texts sanitize_response is applied to, and the absent one.
SanitizeInputs == {PyNone} \cup {PyStr(s) : s \in Texts(MaxPieces)}

SanitizeInit ==
    /\ PROXY_CONFIGS = <<>>
    /\ Idle
    /\ NoSanitizeCall

\* sanitize_response(x)
Sanitize ==
    /\ calls = 0
    /\ \E x \in SanitizeInputs :
        /\ text' = x
        /\ sanitized' = sanitize_response(x)
    /\ calls' = 1
    /\ UNCHANGED requestVars

\* sanitize_response applied to what it returned.
SanitizeAgain ==
    /\ calls = 1
    /\ text' = sanitized
    /\ sanitized' = sanitize_response(sanitized)
    /\ calls' = 2
    /\ UNCHANGED requestVars

SanitizeNext ==
    \/ Sanitize
    \/ SanitizeAgain

SpecSanitize == SanitizeInit /\ [][SanitizeNext]_vars

----------------------------------------------------------------------------
(* What the properties below are stated with: the raw parameter read by the *)
(* positions of its bars, and the outcomes recorded in attempts.            *)

BarPositions(s) == {i \in 1..Len(s) : s[i] = "|"}

FieldCount(s) == Cardinality(BarPositions(s)) + 1

\* The four fields of a parameter with exactly three bars.
RawFields(s) ==
    LET B   == BarPositions(s)
        lo  == CHOOSE b \in B : \A c \in B : b <= c
        hi  == CHOOSE b \in B : \A c \in B : c <= b
        mid == CHOOSE b \in B \ {lo, hi} : TRUE
    IN  <<SubSeq(s, 1, lo - 1), SubSeq(s, lo + 1, mid - 1),
          SubSeq(s, mid + 1, hi - 1), SubSeq(s, hi + 1, Len(s))>>

\* The year a 4-field parameter is forwarded with.
ExpectedYear(raw) == IF Len(raw) = 2 THEN <<"2", "0">> \o raw ELSE raw

\* number|month|year|cvv with the normalized year.
ExpectedCc(s) ==
    LET f == RawFields(s)
    IN  f[1] \o <<"|">> \o f[2] \o <<"|">> \o ExpectedYear(f[3]) \o <<"|">> \o f[4]

Got200(o) == o.t = "Response" /\ o.status = 200

Failed(o) == o.t # "pending" /\ ~Got200(o)

\* The direct attempt and the listed-proxy attempts all ended without a 200.
AllListedFailed ==
    /\ Len(attempts) >= Len(PROXY_CONFIGS) + 1
    /\ \A i \in 1..(Len(PROXY_CONFIGS) + 1) : Failed(attempts[i].outcome)

\* The last-resort try block was entered.
LastResortTried == pc = "final_wait" \/ final_response.t # "None"

Replied == result.http # 0

IsText(x, s) == x.t = "str" /\ x.v = s

\* No match of any of the sanitizer's three patterns starts anywhere in s.
Clean(s) ==
    \A i \in 1..Len(s) : \A pattern \in {"mention", "url", "www"} :
        MatchLen(pattern, s, i) = 0

----------------------------------------------------------------------------
(* Properties *)

\* C1: a raw parameter that does not split on '|' into exactly 4 fields makes
\* parse_cc_parameter return the invalid sentinel, and the endpoint answers
\* HTTP 400, code INVALID_PARAMETERS, status declined, without any outbound
\* request.
C1_InvalidRejected ==
    (pc # "idle" /\ FieldCount(cc_param) # 4) =>
        /\ parsed = NoFields
        /\ pc = "done"
        /\ result.http = 400
        /\ IsText(result.json.code, <<"I", "N", "V", "A", "L", "I", "D", "_",
                                      "P", "A", "R", "A", "M", "E", "T", "E",
                                      "R", "S">>)
        /\ IsText(result.json.status, <<"d", "e", "c", "l", "i", "n", "e",
                                        "d">>)
        /\ attempts = <<>>

C1_Witness ==
    /\ pc = "done"
    /\ FieldCount(cc_param) = 5
    /\ result.http = 400

\* C2: for a raw parameter of exactly 4 fields, parse_cc_parameter returns
\* number, month and cvv unchanged, and the year prefixed with "20" when it
\* has exactly 2 characters, unchanged for every other length.
C2_YearNormalized ==
    (pc # "idle" /\ FieldCount(cc_param) = 4) =>
        \A f \in {RawFields(cc_param)} :
            /\ IsText(parsed[1], f[1])
            /\ IsText(parsed[2], f[2])
            /\ IsText(parsed[4], f[4])
            /\ Len(f[3]) = 2 => IsText(parsed[3], <<"2", "0">> \o f[3])
            /\ Len(f[3]) # 2 => IsText(parsed[3], f[3])

C2_Witness ==
    /\ pc # "idle"
    /\ cc_param = <<"4", "|", "4", "|", "4", "4", "|", "4">>
    /\ IsText(parsed[3], <<"2", "0", "4", "4">>)

\* C3: within one request, whatever the upstream outcomes and the length of
\* the proxy list, at most 1 + len(PROXY_CONFIGS) + 1 outbound requests are
\* issued.
C3_AttemptsBounded == Len(attempts) <= 1 + Len(PROXY_CONFIGS) + 1

C3_Witness ==
    /\ pc = "done"
    /\ Len(PROXY_CONFIGS) >= 1
    /\ Len(attempts) = Len(PROXY_CONFIGS) + 2

C5_LastResort ==
    /\ LastResortTried => AllListedFailed
    /\ (pc = "done" /\ AllListedFailed) => final_response.t # "None"
    /\ (final_response.t # "None" /\ PROXY_CONFIGS = <<>>) =>
           final_response.t = "IndexError" /\ Len(attempts) = 1
    /\ final_response.t # "None" =>
           /\ pc = "done"
           /\ result.http = 200
           /\ IF Got200(final_response)
              THEN /\ IsText(result.json.code, <<"P", "R", "O", "X", "Y", "_", "S",
                                                 "U", "C", "C", "E", "S", "S">>)
                   /\ IsText(result.json.status, <<"a", "p", "p", "r", "o", "v", "e",
                                                   "d">>)
              ELSE /\ IsText(result.json.code,
                             IF final_response.t = "Response"
                             THEN <<"A", "P", "I", "_", "B", "L", "O", "C",
                                    "K", "E", "D">> ELSE <<"N", "E", "T", "W", "O", "R", "K",
                                                           "_", "B", "L", "O", "C", "K", "E",
                                                           "D">>)
                   /\ IsText(result.json.status, <<"d", "e", "c", "l", "i", "n", "e",
                                                   "d">>)
                   /\ result.json.message.t = "str"
                   /\ result.json.message.v # <<>>

C5_Witness ==
    /\ pc = "done"
    /\ final_response.t = "Response"
    /\ final_response.status = 403
    /\ IsText(result.json.code, <<"A", "P", "I", "_", "B", "L", "O", "C",
                                  "K", "E", "D">>)

\* C6 as stated: every HTTP 200 reply has the four fields cc, response,
\* status and code, cc being number|month|year|cvv of the normalized fields.
C6_EveryOkReplyHasFourFields ==
    result.http = 200 =>
        /\ {"cc", "response", "status", "code"} \subseteq DOMAIN result.json
        /\ IsText(result.json.cc, ExpectedCc(cc_param))

\* C6 as amended: an HTTP 200 reply built from a 200 of upstream (direct,
\* listed proxy or last resort) has exactly the fields cc, response, status
\* and code, cc being number|month|year|cvv of the normalized fields; an
\* HTTP 200 reply of a blocked outcome has the fields code, message and
\* status instead.
C6_SuccessRepliesHaveFourFields ==
    result.http = 200 =>
        IF \E i \in 1..Len(attempts) : Got200(attempts[i].outcome)
        THEN /\ DOMAIN result.json = {"cc", "response", "status", "code"}
             /\ IsText(result.json.cc, ExpectedCc(cc_param))
        ELSE DOMAIN result.json = {"code", "message", "status"}

C6_Witness ==
    /\ result.http = 200
    /\ Got200(attempts[Len(attempts)].outcome)
    /\ IsText(result.json.cc, <<"4", "|", "4", "|", "2", "0", "4", "4", "|",
                                "4">>)

\* C7: a 200 body of the direct or a listed-proxy attempt always gives an
\* HTTP 200 reply decided by the body: for a key-value object its code,
\* status and sanitized message (defaults UNKNOWN_ERROR, declined, empty),
\* for any other body TEXT_RESPONSE, processed and the sanitized raw body.
C7_ReplyDecidedByBody ==
    \A i \in 1..Len(attempts) :
        (i <= Len(PROXY_CONFIGS) + 1 /\ Got200(attempts[i].outcome)) =>
            LET body == attempts[i].outcome.body
                json == body.json
            IN  /\ result.http = 200
                /\ IF json.t = "dict"
                   THEN /\ result.json.code =
                               Get(json, "code", PyStr(<<"U", "N", "K", "N", "O", "W", "N",
                                                         "_", "E", "R", "R", "O", "R">>))
                        /\ result.json.status =
                               Get(json, "status", PyStr(<<"d", "e", "c", "l", "i", "n", "e",
                                                           "d">>))
                        /\ json.v.message.t = "absent" =>
                               IsText(result.json.response, <<>>)
                        /\ json.v.message.t = "str" =>
                               result.json.response =
                                   sanitize_response(json.v.message)
                   ELSE /\ IsText(result.json.code, <<"T", "E", "X", "T", "_", "R", "E",
                                                      "S", "P", "O", "N", "S", "E">>)
                        /\ IsText(result.json.status, <<"p", "r", "o", "c", "e", "s", "s",
                                                        "e", "d">>)
                        /\ result.json.response =
                               sanitize_response(PyStr(body.text))

\* C8: sanitize_response is idempotent: applied to its own result it
\* returns that result unchanged, for every text and for the absent input.
C8_SanitizeIdempotent == calls = 2 => sanitized = text

\* C9: an outbound request is issued only for a parameter of exactly 4
\* fields whose four normalized fields are non-empty strings; a 4-field
\* parameter with an empty field is answered HTTP 400 INVALID_PARAMETERS
\* without outbound request; every outbound URL carries the cc string that
\* the success reply echoes in cc.
C9_FieldsPresentAndEchoed ==
    /\ attempts # <<>> =>
           /\ FieldCount(cc_param) = 4
           /\ \A k \in 1..4 : parsed[k].t = "str" /\ parsed[k].v # <<>>
    /\ (pc # "idle" /\ FieldCount(cc_param) = 4
          /\ \E k \in 1..4 : RawFields(cc_param)[k] = <<>>) =>
           /\ pc = "done"
           /\ result.http = 400
           /\ IsText(result.json.code, <<"I", "N", "V", "A", "L", "I", "D",
                                         "_", "P", "A", "R", "A", "M", "E",
                                         "T", "E", "R", "S">>)
           /\ attempts = <<>>
    /\ attempts # <<>> =>
           \A target \in {TARGET_API_BASE \o <<"/", "c", "c", "=">> \o ExpectedCc(cc_param)} :
               \A i \in 1..Len(attempts) :
                   \/ attempts[i].url = target
                   \/ \E k \in 1..Len(PROXY_CONFIGS) :
                          attempts[i].url = target \o <<"?", "p", "r", "o", "x", "y", "=">> \o PROXY_CONFIGS[k]
    /\ (Replied /\ "cc" \in DOMAIN result.json) =>
           /\ attempts # <<>>
           /\ IsText(result.json.cc, ExpectedCc(cc_param))

C9_Witness ==
    /\ pc = "done"
    /\ Len(attempts) = 3
    /\ "cc" \in DOMAIN result.json
    /\ IsText(result.json.cc, <<"4", "|", "4", "|", "2", "0", "4", "4", "|",
                                "4">>)

\* C10: in every reply that carries upstream-derived content, each of the
\* fields response, status and code is free of @mentions, http/https URLs
\* and bare www domains.
C10_NoUnsanitizedText ==
    (Replied /\ "response" \in DOMAIN result.json) =>
        \A f \in {"response", "status", "code"} :
            result.json[f].t = "str" => Clean(result.json[f].v)

====
